---- MODULE Spec2Model ----
(***************************************************************************)
(* A model of the oracle / consensus / smart-contract simulation:          *)
(*   src/simulate_decentralized_oracle_network.py  (OracleNode, consensus, *)
(*                                                  HITL fallback, main)   *)
(*   src/code/simulate_oracle.py                   (single-oracle validator)*)
(*   src/code/simulate_smart_contract.py           (ledger + rule engine)  *)
(*                                                                         *)
(* Conventions                                                             *)
(*   - a Python str that the code inspects character by character (token   *)
(*     text, vocabulary terms) is a sequence of one-character strings;     *)
(*     Str(s) is the same text as one string, as it appears in JSON;       *)
(*   - a Python float confidence c is the integer 100*c (0.95 is 95);      *)
(*     FloatRepr gives the text json.dumps writes for it;                  *)
(*   - a Python dict is a function from its keys; None is the value None;  *)
(*   - hashlib.sha256(x).hexdigest() is the symbolic digest Sha256(x):     *)
(*     equal inputs give equal digests, different inputs different ones    *)
(*     (collision freedom is assumed, nothing else about SHA-256 is).      *)
(***************************************************************************)
EXTENDS Integers, Sequences, FiniteSets, TLC

VARIABLES
    doc,                  \* the token sequence handed to the validators
    confidence_threshold, \* validate_nlp_entities' parameter / CONFIDENCE_THRESHOLD
    validated_entities,   \* what the last validator call returned
    enriched_data,        \* simulate_oracle.main: the record with its metadata
    data_for_blockchain,  \* data_for_blockchain.json
    oracle_results,       \* main: the list of the nodes' results (oracle_outputs)
    threshold,            \* consensus_mechanism's threshold argument
    consensus_result,     \* what consensus_mechanism returned
    corrected_data,       \* what trigger_human_in_the_loop returned
    final_data,           \* main: the canonical record
    saved_file,           \* validated_data_for_blockchain.json
    consensus_calls,      \* how many times consensus_mechanism ran in this run
    hitl_calls,           \* how many times trigger_human_in_the_loop ran
    node_raised,          \* per node of the round: did its process() catch an exception
    on_chain_data,        \* simulate_smart_contract.on_chain_data
    off_chain_data,       \* the record last handed to store_on_chain
    stored_hash,          \* the digest store_on_chain last returned
    call,                 \* the last verify_hash / execute_smart_contract call
    callers,              \* the threads inside store_on_chain, each with its locals
    clock,                \* datetime.now(), as a tick count
    pc                    \* position of the running script

vars == <<doc, confidence_threshold, validated_entities, enriched_data,
          data_for_blockchain, oracle_results,
          threshold, consensus_result, corrected_data, final_data, saved_file,
          consensus_calls, hitl_calls, node_raised, on_chain_data,
          off_chain_data, stored_hash, call, callers, clock, pc>>

-----------------------------------------------------------------------------
(* Bounds of the model *)

\* longest token sequence handed to a validator
MaxDocLen == 2

\* longest entity list of a record handed to the smart contract
MaxEntities == 2

\* longest list of node results handed to consensus_mechanism directly
MaxNodes == 3

\* number of store_on_chain calls a behaviour of the ledger may make
MaxCommits == 2

\* number of threads that call store_on_chain at the same time
NumCallers == 2

-----------------------------------------------------------------------------
(* Python values *)

None == [py_none |-> TRUE]

EmptyDict == [k \in {} |-> ""]

\* d[k] = v on a dict
DictSet(d, k, v) == [x \in (DOMAIN d) \cup {k} |-> IF x = k THEN v ELSE d[x]]

HasKey(d, k) == k \in DOMAIN d

\* [x for x in s if P(x)]
Filter(s, P(_)) == SelectSeq(s, P)

-----------------------------------------------------------------------------
(* Text: str.lower(), the substring test `a in b`, and str as one string *)

UpperLetters == <<"A","B","C","D","E","F","G","H","I","J","K","L","M",
                  "N","O","P","Q","R","S","T","U","V","W","X","Y","Z">>
LowerLetters == <<"a","b","c","d","e","f","g","h","i","j","k","l","m",
                  "n","o","p","q","r","s","t","u","v","w","x","y","z">>

LowerChar(c) ==
    IF \E i \in DOMAIN UpperLetters : UpperLetters[i] = c
    THEN LowerLetters[CHOOSE i \in DOMAIN UpperLetters : UpperLetters[i] = c]
    ELSE c

\* s.lower()
Lower(s) == [i \in DOMAIN s |-> LowerChar(s[i])]

\* term in text   (Python's substring test on str)
Contains(term, text) ==
    \E i \in 1..(Len(text) - Len(term) + 1) :
        SubSeq(text, i, i + Len(term) - 1) = term

RECURSIVE Str(_)
Str(s) == IF s = <<>> THEN "" ELSE Head(s) \o Str(Tail(s))

ibuprofen   == <<"i","b","u","p","r","o","f","e","n">>
paracetamol == <<"p","a","r","a","c","e","t","a","m","o","l">>
aspirin     == <<"a","s","p","i","r","i","n">>
naproxen    == <<"n","a","p","r","o","x","e","n">>
penicillin  == <<"p","e","n","i","c","i","l","l","i","n">>
headache    == <<"h","e","a","d","a","c","h","e">>
headaches   == <<"h","e","a","d","a","c","h","e","s">>
fever       == <<"f","e","v","e","r">>
cough       == <<"c","o","u","g","h">>
fatigue     == <<"f","a","t","i","g","u","e">>
nausea      == <<"n","a","u","s","e","a">>
pain        == <<"p","a","i","n">>
migraine    == <<"m","i","g","r","a","i","n","e">>
MRI         == <<"M","R","I">>

CUSTOM_DRUGS    == <<ibuprofen, paracetamol, aspirin, naproxen, penicillin>>
CUSTOM_SYMPTOMS == <<headache, fever, cough, fatigue, nausea>>

\* CONFIDENCE_THRESHOLD = 0.7
CONFIDENCE_THRESHOLD == 70

\* the fixed confidences of the three classification branches
DRUG_CONFIDENCE == 95
SYMPTOM_CONFIDENCE == 90
ENT_CONFIDENCE == 85

-----------------------------------------------------------------------------
(* json.dumps(data, sort_keys=True) and the SHA-256 digest of it *)

Digits == <<"0","1","2","3","4","5","6","7","8","9">>

RECURSIVE IntStr(_)
IntStr(n) == IF n < 10 THEN Digits[n + 1]
             ELSE IntStr(n \div 10) \o Digits[(n % 10) + 1]

\* repr of the float c/100, as json.dumps writes it: 0.95, 0.9, 1.0, 0.05
FloatRepr(c) ==
    IntStr(c \div 100) \o "." \o Digits[((c % 100) \div 10) + 1]
        \o (IF c % 10 = 0 THEN "" ELSE Digits[(c % 10) + 1])

JsonStr(s) == "\"" \o s \o "\""

\* (mutant of JsonEntity) the confidence is left out of the serialization
JsonEntityWithoutConfidence(e) ==
    "{" \o JsonStr("label") \o ": " \o JsonStr(e.label) \o ", "
        \o JsonStr("text") \o ": " \o JsonStr(Str(e.text)) \o "}"

\* an entity dict has the keys confidence, label, text: that is their sorted order
JsonEntity(e) ==
    "{" \o JsonStr("confidence") \o ": " \o FloatRepr(e.confidence) \o ", "
        \o JsonStr("label") \o ": " \o JsonStr(e.label) \o ", "
        \o JsonStr("text") \o ": " \o JsonStr(Str(e.text)) \o "}"

RECURSIVE JsonItems(_)
JsonItems(es) ==
    IF es = <<>> THEN ""
    ELSE JsonEntity(Head(es))
         \o (IF Tail(es) = <<>> THEN "" ELSE ", " \o JsonItems(Tail(es)))

JsonEntityList(es) == "[" \o JsonItems(es) \o "]"

\* the keys the dicts of the program use, in the order sort_keys puts them
SortedKeys == <<"correction_reason", "entities", "final_hash", "hash",
                "institution", "node_id", "patient_id", "raw_entities",
                "source", "status", "timestamp", "valid_entities",
                "validator_id">>

\* the keys whose value is a list of entity dicts; every other value is a str
ListKeys == {"entities", "raw_entities", "valid_entities"}

JsonValue(k, v) == IF k \in ListKeys THEN JsonEntityList(v) ELSE JsonStr(v)

RECURSIVE JsonMembers(_, _)
JsonMembers(d, ks) ==
    IF ks = <<>> THEN ""
    ELSE JsonStr(Head(ks)) \o ": " \o JsonValue(Head(ks), d[Head(ks)])
         \o (IF Tail(ks) = <<>> THEN "" ELSE ", " \o JsonMembers(d, Tail(ks)))

KeysOf(d) == LET In(k) == k \in DOMAIN d IN Filter(SortedKeys, In)

JsonDumps(d) == "{" \o JsonMembers(d, KeysOf(d)) \o "}"

Sha256(s) == "sha256(" \o s \o ")"

\* hashlib.sha256(json.dumps(data, sort_keys=True).encode('utf-8')).hexdigest()
generate_hash(data) == Sha256(JsonDumps(data))

\* str(datetime.now()) at tick n
TimeStr(n) == "T" \o IntStr(n)

-----------------------------------------------------------------------------
(* The validators *)

\* any(term in lower_text for term in terms)
AnyIn(terms, lower_text) ==
    \E i \in DOMAIN terms : Contains(terms[i], lower_text)

Entity(text, label, confidence) ==
    [text |-> text, label |-> label, confidence |-> confidence]

\* (mutant of NlpClassify) the symptom vocabulary is tried before the drugs
NlpClassifySymptomFirst(token, thr) ==
    LET lower_text == Lower(token.text) IN
    IF AnyIn(CUSTOM_SYMPTOMS, lower_text)
    THEN <<Entity(token.text, "SYMPTOM", SYMPTOM_CONFIDENCE)>>
    ELSE IF AnyIn(CUSTOM_DRUGS, lower_text)
    THEN <<Entity(token.text, "DRUG", DRUG_CONFIDENCE)>>
    ELSE IF token.ent_type_ # ""
    THEN (IF ENT_CONFIDENCE >= thr
          THEN <<Entity(token.text, token.ent_type_, ENT_CONFIDENCE)>>
          ELSE <<>>)
    ELSE <<>>

\* one iteration of validate_nlp_entities' loop: what the token appends
NlpClassify(token, thr) ==
    LET lower_text == Lower(token.text) IN
    IF AnyIn(CUSTOM_DRUGS, lower_text)
    THEN <<Entity(token.text, "DRUG", DRUG_CONFIDENCE)>>
    ELSE IF AnyIn(CUSTOM_SYMPTOMS, lower_text)
    THEN <<Entity(token.text, "SYMPTOM", SYMPTOM_CONFIDENCE)>>
    ELSE IF token.ent_type_ # ""
    THEN (IF ENT_CONFIDENCE >= thr
          THEN <<Entity(token.text, token.ent_type_, ENT_CONFIDENCE)>>
          ELSE <<>>)
    ELSE <<>>

\* simulate_oracle.validate_nlp_entities(doc, confidence_threshold)
RECURSIVE validate_nlp_entities(_, _)
validate_nlp_entities(d, thr) ==
    IF d = <<>> THEN <<>>
    ELSE NlpClassify(Head(d), thr) \o validate_nlp_entities(Tail(d), thr)

\* one iteration of OracleNode.validate_entities' loop
NodeClassify(token, custom_drugs, custom_symptoms) ==
    LET lower_text == Lower(token.text) IN
    IF AnyIn(custom_drugs, lower_text)
    THEN <<Entity(token.text, "DRUG", DRUG_CONFIDENCE)>>
    ELSE IF AnyIn(custom_symptoms, lower_text)
    THEN <<Entity(token.text, "SYMPTOM", SYMPTOM_CONFIDENCE)>>
    ELSE IF token.ent_type_ # ""
    THEN (IF ENT_CONFIDENCE >= CONFIDENCE_THRESHOLD
          THEN <<Entity(token.text, token.ent_type_, ENT_CONFIDENCE)>>
          ELSE <<>>)
    ELSE <<>>

\* OracleNode.validate_entities(doc, custom_drugs, custom_symptoms)
RECURSIVE validate_entities(_, _, _)
validate_entities(d, custom_drugs, custom_symptoms) ==
    IF d = <<>> THEN <<>>
    ELSE NodeClassify(Head(d), custom_drugs, custom_symptoms)
         \o validate_entities(Tail(d), custom_drugs, custom_symptoms)

(* The inputs: annotated tokens {text, ent_type_} ("" is no extractor label) *)

Token(text, ent) == [text |-> text, ent_type_ |-> ent]

Tokens ==
    { Token(ibuprofen, ""),
      Token(<<"H","e","a","d","a","c","h","e","s">>, ""),
      Token(headache, ""),
      Token(MRI, "ORG"),
      Token(<<"t","h","e">>, ""),
      Token(<<"F","e","v","e","r","-","A","s","p","i","r","i","n">>, "PRODUCT"),
      Token(fatigue, "ORG") }

RECURSIVE SeqsUpTo(_, _)
SeqsUpTo(S, n) ==
    IF n = 0 THEN {<<>>}
    ELSE LET shorter == SeqsUpTo(S, n - 1)
         IN shorter \cup {Append(s, x) : s \in shorter, x \in S}

Docs == SeqsUpTo(Tokens, MaxDocLen)

\* configured thresholds, as 100 * the float in [0, 1]
Thresholds == {0, 50, 70, 85, 86, 90, 91, 95, 96, 100}

-----------------------------------------------------------------------------
(* OracleNode *)

\* main's three nodes: (node_id, private_key)
Oracles == << [node_id |-> "Oracle_A", private_key |-> "priv_key_A_123"],
              [node_id |-> "Oracle_B", private_key |-> "priv_key_B_456"],
              [node_id |-> "Oracle_C", private_key |-> "priv_key_C_789"] >>

\* OracleNode.enrich_with_metadata, with datetime.now() read as tick t
enrich_with_metadata(node, entities, t) ==
    [entities  |-> entities,
     timestamp |-> TimeStr(t),
     source    |-> "NLP Module",
     node_id   |-> node.node_id,
     status    |-> "validated"]

\* OracleNode.sign_hash
sign_hash(node, h) == Sha256(h \o node.private_key)

\* the result dict OracleNode.process builds from a list of entities
Attestation(node, entities, t) ==
    LET enriched == enrich_with_metadata(node, entities, t)
        h == generate_hash(enriched)
    IN [node_id   |-> node.node_id,
        data      |-> enriched,
        hash      |-> h,
        signature |-> sign_hash(node, h)]

\* the value a call has when it raised instead of returning
Raised(exception) == [raised |-> exception]

\* (mutant of process) without the try/except the exception leaves process
process_without_except(node, d, t, raised) ==
    IF raised THEN Raised("Exception")
    ELSE LET entities == validate_entities(d, CUSTOM_DRUGS, CUSTOM_SYMPTOMS) IN
         IF entities = <<>> THEN None
         ELSE Attestation(node, entities, t)

\* (mutant of process) the `if not entities` return of lines 85-87 is left out
process_without_abstain(node, d, t, raised) ==
    IF raised THEN None
    ELSE Attestation(node, validate_entities(d, CUSTOM_DRUGS, CUSTOM_SYMPTOMS), t)

\* OracleNode.process(doc); `raised` is an exception inside the try block
process(node, d, t, raised) ==
    IF raised THEN None
    ELSE LET entities == validate_entities(d, CUSTOM_DRUGS, CUSTOM_SYMPTOMS) IN
         IF entities = <<>> THEN None
         ELSE Attestation(node, entities, t)

-----------------------------------------------------------------------------
(* Consensus and the human fallback *)

NotNone(o) == o # None

HashOf(o) == o.hash

SignatureOf(o) == o.signature

MapSeq(s, F(_)) == [i \in DOMAIN s |-> F(s[i])]

\* consensus_mechanism(oracle_outputs, threshold)
consensus_mechanism(oracle_outputs, thr) ==
    IF Len(oracle_outputs) < thr THEN None
    ELSE LET valid_responses == Filter(oracle_outputs, NotNone) IN
         IF Len(valid_responses) >= thr
         THEN IF valid_responses = <<>>
              THEN Raised("IndexError")            \* valid_responses[0]
              ELSE [consensus         |-> "success",
                    final_package     |-> valid_responses[1].data,
                    aggregated_hashes |-> MapSeq(valid_responses, HashOf),
                    signatures        |-> MapSeq(valid_responses, SignatureOf)]
         ELSE None

\* (mutant of trigger_human_in_the_loop) the corrected entities are merged
\* with those of the attestations handed in
hitl_merging_attestations(oracle_outputs, t) ==
    LET given == Filter(oracle_outputs, NotNone)
        theirs == IF given = <<>> THEN <<>> ELSE given[1].data.entities
    IN [entities |-> theirs \o << Entity(MRI, "PROCEDURE", 98),
                                  Entity(headache, "SYMPTOM", 95),
                                  Entity(fatigue, "SYMPTOM", 93),
                                  Entity(ibuprofen, "DRUG", 97) >>,
        correction_reason |-> "Low confidence in NLP extraction for 'MRI'",
        validator_id |-> "HITL_001",
        timestamp |-> TimeStr(t)]

\* trigger_human_in_the_loop(input_text, oracle_outputs), datetime.now() = tick t
trigger_human_in_the_loop(oracle_outputs, t) ==
    [entities |-> << Entity(MRI, "PROCEDURE", 98),
                     Entity(headache, "SYMPTOM", 95),
                     Entity(fatigue, "SYMPTOM", 93),
                     Entity(ibuprofen, "DRUG", 97) >>,
     correction_reason |-> "Low confidence in NLP extraction for 'MRI'",
     validator_id |-> "HITL_001",
     timestamp |-> TimeStr(t)]

\* Python truth value of None or a dict
Truthy(x) == x # None /\ DOMAIN x # {}

\* main calls consensus_mechanism(oracle_results, threshold=2)
MainThreshold == 2

-----------------------------------------------------------------------------
(* The smart contract: simulate_smart_contract.py *)

CONTRACT_ADDRESS == "0x1234567890abcdef1234567890abcdef12345678"

headache_keywords == <<headache, headaches, pain, migraine>>
drug_keywords     == <<ibuprofen, paracetamol, aspirin>>

\* (mutant of InList) a keyword counts when some element contains it
InListSubstring(x, lst) == \E i \in DOMAIN lst : Contains(x, lst[i])

\* x in lst   (Python's membership test on a list)
InList(x, lst) == \E i \in DOMAIN lst : lst[i] = x

\* verify_hash(data_off_chain, stored_hash)
verify_hash(data, h) ==
    LET calculated_hash == Sha256(JsonDumps(data))
    IN calculated_hash = h

\* [ent["text"].lower() for ent in entities if ent["label"] == label]
LoweredTexts(entities, label) ==
    LET Labelled(ent) == ent.label = label
        LowerText(ent) == Lower(ent.text)
    IN MapSeq(Filter(entities, Labelled), LowerText)

\* next((k for k in keywords if k in found), None); <<>> is None
FirstMatch(keywords, found) ==
    IF \E i \in DOMAIN keywords : InList(keywords[i], found)
    THEN keywords[CHOOSE i \in DOMAIN keywords :
                     /\ InList(keywords[i], found)
                     /\ \A j \in 1..(i - 1) : ~InList(keywords[j], found)]
    ELSE <<>>

\* what a finished call of execute_smart_contract looks like:
\*   verified  what verify_hash returned,
\*   step      where execution ended: the integrity gate or the business logic,
\*   ret       the bool returned (FALSE when it raised),
\*   raised    the exception it raised, "" when it returned
Outcome(data, h, verified, step, ret, raised, mh, md) ==
    [op |-> "execute", data |-> data, stored_hash |-> h,
     verified |-> verified, step |-> step, ret |-> ret, raised |-> raised,
     matched_headache |-> mh, matched_drug |-> md]

\* Step 2 of execute_smart_contract (lines 48-70)
business_logic(data, h) ==
    IF ~HasKey(data, "valid_entities")
    THEN Outcome(data, h, TRUE, "business_logic", FALSE, "KeyError", <<>>, <<>>)
    ELSE LET drugs    == LoweredTexts(data["valid_entities"], "DRUG")
             symptoms == LoweredTexts(data["valid_entities"], "SYMPTOM")
             has_headache ==
                 \E i \in DOMAIN headache_keywords :
                     InList(headache_keywords[i], symptoms)
             has_drug ==
                 \E i \in DOMAIN drug_keywords : InList(drug_keywords[i], drugs)
         IN IF has_headache /\ has_drug
            THEN Outcome(data, h, TRUE, "business_logic", TRUE, "",
                         FirstMatch(headache_keywords, symptoms),
                         FirstMatch(drug_keywords, drugs))
            ELSE Outcome(data, h, TRUE, "business_logic", FALSE, "", <<>>, <<>>)

\* (mutant of execute_smart_contract) the integrity gate is skipped
execute_without_gate(data, h) == business_logic(data, h)

\* execute_smart_contract(data_off_chain, stored_hash)
execute_smart_contract(data, h) ==
    IF ~verify_hash(data, h)
    THEN Outcome(data, h, FALSE, "integrity_gate", FALSE, "", <<>>, <<>>)
    ELSE business_logic(data, h)

\* the value execute_smart_contract hands back to its caller (lines 46, 67,
\* 70): the bare boolean; the step that decided it is only printed
ReturnedValue(outcome) == outcome.ret

\* the digest store_on_chain computes and returns
store_digest(data) == Sha256(JsonDumps(data))

\* on_chain_data after store_on_chain(data_off_chain), datetime.now() = tick t
store_on_chain(chain, data, t) ==
    LET d1 == DictSet(chain, "hash", store_digest(data))
        d2 == DictSet(d1, "timestamp", TimeStr(t))
        d3 == DictSet(d2, "status", "Data hash stored on-chain")
    IN DictSet(d3, "contract_address", CONTRACT_ADDRESS)

(* The records handed to the contract: the shape of off_chain_data, lines 93-103 *)

ContractRecord(entities) ==
    [valid_entities |-> entities,
     timestamp      |-> "2025-07-14T12:34:56Z",
     institution    |-> "CHU Alger",
     patient_id     |-> "PAT_123456",
     status         |-> "Oracle validation passed"]

ContractEntities ==
    { Entity(<<"H","e","a","d","a","c","h","e">>, "SYMPTOM", 90),
      Entity(<<"p","a","i","n","f","u","l">>, "SYMPTOM", 90),
      Entity(ibuprofen, "DRUG", 95),
      Entity(ibuprofen, "SYMPTOM", 95),
      Entity(ibuprofen, "DRUG", 90) }

Records == {ContractRecord(es) : es \in SeqsUpTo(ContractEntities, MaxEntities)}

\* a digest that belongs to no record
BogusHash == "0xdeadbeef"

-----------------------------------------------------------------------------
(* States and steps *)

IdleValidator ==
    /\ confidence_threshold = CONFIDENCE_THRESHOLD
    /\ validated_entities = <<>>
    /\ enriched_data = None
    /\ data_for_blockchain = None

IdleNetwork ==
    /\ oracle_results = <<>>
    /\ threshold = MainThreshold
    /\ consensus_result = None
    /\ corrected_data = None
    /\ final_data = None
    /\ saved_file = None
    /\ consensus_calls = 0
    /\ hitl_calls = 0
    /\ node_raised = <<>>

IdleContract ==
    /\ on_chain_data = EmptyDict
    /\ off_chain_data = None
    /\ stored_hash = ""
    /\ call = None
    /\ callers = <<>>

validatorVars == <<confidence_threshold, validated_entities, enriched_data,
                   data_for_blockchain>>
networkVars == <<oracle_results, threshold, consensus_result, corrected_data,
                 final_data, saved_file, consensus_calls, hitl_calls,
                 node_raised>>
contractVars == <<on_chain_data, off_chain_data, stored_hash, call, callers>>

(* -- the validators, called on any token sequence ------------------------ *)

InitValidate ==
    /\ doc \in Docs
    /\ confidence_threshold \in Thresholds
    /\ validated_entities = <<>>
    /\ enriched_data = None
    /\ data_for_blockchain = None
    /\ clock = 0
    /\ pc = "validate"
    /\ IdleNetwork
    /\ IdleContract

\* simulate_oracle.py: validated_entities = validate_nlp_entities(doc, thr)
ValidateNlpEntities ==
    /\ pc = "validate"
    /\ validated_entities' = validate_nlp_entities(doc, confidence_threshold)
    /\ pc' = "validated_nlp"
    /\ UNCHANGED <<doc, confidence_threshold, enriched_data, data_for_blockchain,
                   clock, networkVars, contractVars>>

\* OracleNode.validate_entities: the threshold is the module's CONFIDENCE_THRESHOLD
ValidateEntities ==
    /\ pc = "validate"
    /\ confidence_threshold = CONFIDENCE_THRESHOLD
    /\ validated_entities' = validate_entities(doc, CUSTOM_DRUGS, CUSTOM_SYMPTOMS)
    /\ pc' = "validated_node"
    /\ UNCHANGED <<doc, confidence_threshold, enriched_data, data_for_blockchain,
                   clock, networkVars, contractVars>>

NextValidate == ValidateNlpEntities \/ ValidateEntities

SpecValidate == InitValidate /\ [][NextValidate]_vars

(* -- consensus_mechanism, called on any list of results ------------------ *)

\* the results a node may hand in: None, or an attestation over a list of
\* entities (the empty list included: the function accepts it)
EntityLists ==
    { <<>>,
      <<Entity(ibuprofen, "DRUG", 95)>>,
      <<Entity(headache, "SYMPTOM", 90), Entity(ibuprofen, "DRUG", 95)>> }

NodeAt(i) == Oracles[((i - 1) % Len(Oracles)) + 1]

OutputsAt(i) == {None} \cup {Attestation(NodeAt(i), es, i) : es \in EntityLists}

RECURSIVE OutputLists(_)
OutputLists(n) ==
    IF n = 0 THEN {<<>>}
    ELSE LET shorter == OutputLists(n - 1)
         IN shorter \cup {Append(s, o) : s \in {x \in shorter : Len(x) = n - 1},
                                         o \in OutputsAt(n)}

InitConsensus ==
    /\ oracle_results \in OutputLists(MaxNodes)
    /\ threshold \in -1..(MaxNodes + 1)
    /\ consensus_result = None
    /\ corrected_data = None
    /\ final_data = None
    /\ saved_file = None
    /\ consensus_calls = 0
    /\ hitl_calls = 0
    /\ node_raised = <<>>
    /\ doc = <<>>
    /\ clock = 0
    /\ pc = "reconcile"
    /\ IdleValidator
    /\ IdleContract

Reconcile ==
    /\ pc = "reconcile"
    /\ consensus_result' = consensus_mechanism(oracle_results, threshold)
    /\ consensus_calls' = consensus_calls + 1
    /\ pc' = "reconciled"
    /\ UNCHANGED <<doc, oracle_results, threshold, corrected_data, final_data,
                   saved_file, hitl_calls, clock, node_raised,
                   validatorVars, contractVars>>

NextConsensus == Reconcile

SpecConsensus == InitConsensus /\ [][NextConsensus]_vars

(* -- main of simulate_decentralized_oracle_network.py -------------------- *)

InitMain ==
    /\ doc \in Docs
    /\ clock = 0
    /\ pc = "process"
    /\ IdleNetwork
    /\ IdleValidator
    /\ IdleContract

\* lines 196-199: the next node of the list processes the document
Process ==
    /\ pc = "process"
    /\ \E raised \in BOOLEAN :
         LET i == Len(oracle_results) + 1
             result == process(Oracles[i], doc, clock, raised)
         IN /\ oracle_results' = Append(oracle_results, result)
            /\ node_raised' = Append(node_raised, raised)
            /\ clock' = IF result = None THEN clock ELSE clock + 1
            /\ pc' = IF i = Len(Oracles) THEN "consensus" ELSE "process"
    /\ UNCHANGED <<doc, threshold, consensus_result, corrected_data, final_data,
                   saved_file, consensus_calls, hitl_calls,
                   validatorVars, contractVars>>

\* line 202
Consensus ==
    /\ pc = "consensus"
    /\ consensus_result' = consensus_mechanism(oracle_results, threshold)
    /\ consensus_calls' = consensus_calls + 1
    /\ pc' = "decide"
    /\ UNCHANGED <<doc, oracle_results, threshold, corrected_data, final_data,
                   saved_file, hitl_calls, clock, node_raised,
                   validatorVars, contractVars>>

\* lines 205-207
Approve ==
    /\ pc = "decide"
    /\ Truthy(consensus_result)
    /\ final_data' = consensus_result.final_package
    /\ pc' = "final_hash"
    /\ UNCHANGED <<doc, oracle_results, threshold, consensus_result,
                   corrected_data, saved_file, consensus_calls, hitl_calls,
                   clock, node_raised,
                   validatorVars, contractVars>>

\* (mutant of Fallback) a failed round is run again instead of escalated
FallbackRetry ==
    /\ pc = "decide"
    /\ ~Truthy(consensus_result)
    /\ consensus_result' = consensus_mechanism(oracle_results, threshold)
    /\ consensus_calls' = consensus_calls + 1
    /\ pc' = "decide"
    /\ UNCHANGED <<doc, oracle_results, threshold, corrected_data, final_data,
                   saved_file, hitl_calls, clock, node_raised,
                   validatorVars, contractVars>>

\* lines 208-211
Fallback ==
    /\ pc = "decide"
    /\ ~Truthy(consensus_result)
    /\ corrected_data' = trigger_human_in_the_loop(oracle_results, clock)
    /\ hitl_calls' = hitl_calls + 1
    /\ final_data' = corrected_data'
    /\ clock' = clock + 1
    /\ pc' = "final_hash"
    /\ UNCHANGED <<doc, oracle_results, threshold, consensus_result, saved_file,
                   consensus_calls, node_raised,
                   validatorVars, contractVars>>

\* index of the first result that is not None
FirstValidIndex(results) ==
    CHOOSE i \in DOMAIN results :
        /\ results[i] # None
        /\ \A j \in 1..(i - 1) : results[j] = None

\* lines 213-215.  After Approve, final_data is the very dict object that
\* consensus_result["final_package"] and the first valid result's "data" are,
\* so the assignment final_data["final_hash"] = ... shows in all three.
FinalHash ==
    /\ pc = "final_hash"
    /\ LET final_hash == generate_hash(final_data)
           hashed == DictSet(final_data, "final_hash", final_hash)
       IN /\ final_data' = hashed
          /\ IF Truthy(consensus_result)
             THEN /\ consensus_result' =
                        [consensus_result EXCEPT !.final_package = hashed]
                  /\ oracle_results' =
                        [oracle_results EXCEPT
                            ![FirstValidIndex(oracle_results)].data = hashed]
                  /\ UNCHANGED corrected_data
             ELSE /\ corrected_data' = hashed
                  /\ UNCHANGED <<consensus_result, oracle_results>>
    /\ pc' = "save"
    /\ UNCHANGED <<doc, threshold, saved_file, consensus_calls, hitl_calls,
                   clock, node_raised,
                   validatorVars, contractVars>>

\* lines 217-219
Save ==
    /\ pc = "save"
    /\ saved_file' = final_data
    /\ pc' = "done"
    /\ UNCHANGED <<doc, oracle_results, threshold, consensus_result,
                   corrected_data, final_data, consensus_calls, hitl_calls,
                   clock, node_raised,
                   validatorVars, contractVars>>

NextMain == Process \/ Consensus \/ Approve \/ Fallback \/ FinalHash \/ Save

Spec == InitMain /\ [][NextMain]_vars

(* -- a round in which a node's process() call may never return ------------ *)

\* lines 196-199: main calls oracle.process(doc) in the loop's own thread,
\* without a timeout; when the call does not return (process iterates the
\* document at line 31, which need not end) the loop stays at line 197
ProcessNeverReturns ==
    /\ pc = "process"
    /\ pc' = "hung"
    /\ UNCHANGED <<doc, oracle_results, threshold, consensus_result,
                   corrected_data, final_data, saved_file, consensus_calls,
                   hitl_calls, clock, node_raised, validatorVars, contractVars>>

NextRound == NextMain \/ ProcessNeverReturns

\* the interpreter keeps executing main while it has a statement to execute
SpecRound == InitMain /\ [][NextRound]_vars /\ WF_vars(NextRound)

(* -- simulate_oracle.py: the single-oracle run ---------------------------- *)

\* simulate_oracle.enrich_with_metadata, with datetime.now() read as tick t
oracle_enrich_with_metadata(entities, t) ==
    [raw_entities |-> entities,
     timestamp    |-> TimeStr(t),
     institution  |-> "CHU Alger",
     patient_id   |-> "PAT_123456",
     status       |-> "Oracle validation passed"]

InitOracle ==
    /\ doc \in Docs
    /\ clock = 0
    /\ pc = "oracle_validate"
    /\ IdleNetwork
    /\ IdleValidator
    /\ IdleContract

oracleFrame == <<doc, confidence_threshold, networkVars, contractVars>>

\* lines 114-118: validate with the default threshold; return when nothing is left
OracleValidate ==
    /\ pc = "oracle_validate"
    /\ validated_entities' = validate_nlp_entities(doc, CONFIDENCE_THRESHOLD)
    /\ pc' = IF validated_entities' = <<>> THEN "oracle_failed" ELSE "oracle_enrich"
    /\ UNCHANGED <<enriched_data, data_for_blockchain, clock, oracleFrame>>

\* line 121: enriched_data = enrich_with_metadata(validated_entities)
OracleEnrich ==
    /\ pc = "oracle_enrich"
    /\ enriched_data' = oracle_enrich_with_metadata(validated_entities, clock)
    /\ clock' = clock + 1
    /\ pc' = "oracle_hash"
    /\ UNCHANGED <<validated_entities, data_for_blockchain, oracleFrame>>

\* lines 124-125: hash_value = generate_hash(enriched_data);
\* enriched_data["hash"] = hash_value
OracleHash ==
    /\ pc = "oracle_hash"
    /\ enriched_data' = DictSet(enriched_data, "hash", generate_hash(enriched_data))
    /\ pc' = "oracle_save"
    /\ UNCHANGED <<validated_entities, data_for_blockchain, clock, oracleFrame>>

\* lines 133-134: json.dump(enriched_data, f, indent=2)
OracleSave ==
    /\ pc = "oracle_save"
    /\ data_for_blockchain' = enriched_data
    /\ pc' = "oracle_saved"
    /\ UNCHANGED <<validated_entities, enriched_data, clock, oracleFrame>>

NextOracle == OracleValidate \/ OracleEnrich \/ OracleHash \/ OracleSave

(* -- either script producing the record for the smart contract ------------ *)

InitPersist == InitMain \/ InitOracle

NextPersist == NextMain \/ NextOracle

SpecPersist == InitPersist /\ [][NextPersist]_vars

(* -- main followed by the smart contract ---------------------------------- *)
(* The contract script does not read the file main saves: it stores and      *)
(* evaluates its own literal (lines 93-103).  A caller who wants the record  *)
(* main built on the ledger applies store_on_chain and                       *)
(* execute_smart_contract to it himself.  Both continuations are modelled.   *)

\* the literal off_chain_data of the contract script, lines 93-103
ExampleOffChainData ==
    ContractRecord(<< Entity(headaches, "SYMPTOM", 90),
                      Entity(fatigue, "SYMPTOM", 90),
                      Entity(ibuprofen, "DRUG", 95) >>)

\* simulate_smart_contract.py line 111: stored_hash = store_on_chain(off_chain_data)
ContractStore ==
    /\ pc = "done"
    /\ on_chain_data' = store_on_chain(on_chain_data, ExampleOffChainData, clock)
    /\ off_chain_data' = ExampleOffChainData
    /\ stored_hash' = store_digest(ExampleOffChainData)
    /\ call' = [op |-> "store", data |-> ExampleOffChainData,
                before |-> on_chain_data,
                ret |-> store_digest(ExampleOffChainData), raised |-> ""]
    /\ clock' = clock + 1
    /\ pc' = "contract_stored"
    /\ UNCHANGED <<doc, callers, networkVars, validatorVars>>

\* line 114: result = execute_smart_contract(off_chain_data, stored_hash)
ContractExecute ==
    /\ pc = "contract_stored"
    /\ call' = execute_smart_contract(off_chain_data, stored_hash)
    /\ pc' = "contract_done"
    /\ UNCHANGED <<doc, clock, on_chain_data, off_chain_data, stored_hash,
                   callers, networkVars, validatorVars>>

\* store_on_chain(final_data): the function applied to the record main built
CommitPackage ==
    /\ pc = "done"
    /\ on_chain_data' = store_on_chain(on_chain_data, final_data, clock)
    /\ off_chain_data' = final_data
    /\ stored_hash' = store_digest(final_data)
    /\ call' = [op |-> "store", data |-> final_data, before |-> on_chain_data,
                ret |-> store_digest(final_data), raised |-> ""]
    /\ clock' = clock + 1
    /\ pc' = "package_stored"
    /\ UNCHANGED <<doc, callers, networkVars, validatorVars>>

\* execute_smart_contract(final_data, stored_hash): the function applied to
\* the committed record and the digest store_on_chain returned for it
EvaluatePackage ==
    /\ pc = "package_stored"
    /\ call' = execute_smart_contract(off_chain_data, stored_hash)
    /\ pc' = "package_evaluated"
    /\ UNCHANGED <<doc, clock, on_chain_data, off_chain_data, stored_hash,
                   callers, networkVars, validatorVars>>

NextEndToEnd ==
    NextMain \/ ContractStore \/ ContractExecute \/ CommitPackage
        \/ EvaluatePackage

SpecEndToEnd == InitMain /\ [][NextEndToEnd]_vars

(* -- the smart contract's functions, called in any order ----------------- *)

InitContract ==
    /\ IdleContract
    /\ doc = <<>>
    /\ clock = 0
    /\ pc = "contract"
    /\ IdleNetwork
    /\ IdleValidator

\* the digests a caller may pass: the one store_on_chain returned, the one the
\* caller computes from the record in hand, one that belongs to nothing
HashArgs(data) == {stored_hash, generate_hash(data), BogusHash}

StoreOnChain ==
    /\ pc = "contract"
    /\ clock < MaxCommits
    /\ \E data \in Records :
         /\ on_chain_data' = store_on_chain(on_chain_data, data, clock)
         /\ off_chain_data' = data
         /\ stored_hash' = store_digest(data)
         /\ call' = [op |-> "store", data |-> data, before |-> on_chain_data,
                     ret |-> store_digest(data), raised |-> ""]
    /\ clock' = clock + 1
    /\ pc' = "returned"
    /\ UNCHANGED <<doc, callers, networkVars, validatorVars>>

\* the record and the ledger as they were when a call was entered
Entered(data) == [arg |-> data, before |-> on_chain_data]

VerifyHash ==
    /\ pc = "contract"
    /\ \E data \in Records : \E h \in HashArgs(data) :
         call' = [op |-> "verify", data |-> data, stored_hash |-> h,
                  ret |-> verify_hash(data, h)] @@ Entered(data)
    /\ pc' = "returned"
    /\ UNCHANGED <<doc, clock, on_chain_data, off_chain_data, stored_hash,
                   callers, networkVars, validatorVars>>

\* (mutant of ExecuteSmartContract) a triggered action is recorded on the ledger
ExecuteRecordingAction ==
    /\ pc = "contract"
    /\ \E data \in Records : \E h \in HashArgs(data) :
         /\ call' = execute_smart_contract(data, h) @@ Entered(data)
         /\ on_chain_data' = IF call'.ret
                             THEN DictSet(on_chain_data, "status", "Action triggered")
                             ELSE on_chain_data
    /\ pc' = "returned"
    /\ UNCHANGED <<doc, clock, off_chain_data, stored_hash,
                   callers, networkVars, validatorVars>>

ExecuteSmartContract ==
    /\ pc = "contract"
    /\ \E data \in Records : \E h \in HashArgs(data) :
         call' = execute_smart_contract(data, h) @@ Entered(data)
    /\ pc' = "returned"
    /\ UNCHANGED <<doc, clock, on_chain_data, off_chain_data, stored_hash,
                   callers, networkVars, validatorVars>>

\* the caller has looked at the result and is ready for its next call
Return ==
    /\ pc = "returned"
    /\ call' = None
    /\ pc' = "contract"
    /\ UNCHANGED <<doc, clock, on_chain_data, off_chain_data, stored_hash,
                   callers, networkVars, validatorVars>>

NextContract == StoreOnChain \/ VerifyHash \/ ExecuteSmartContract \/ Return

SpecContract == InitContract /\ [][NextContract]_vars

(* -- store_on_chain called from several threads at once ----------------- *)
(* Each thread runs the statements of store_on_chain in order; the           *)
(* interpreter may switch threads between any two accesses to shared state:  *)
(* between statements, and inside line 81 between the reading of the clock   *)
(* and the store of the item.  on_chain_data is the one module-level dict;   *)
(* stored_hash and the clock reading are local to the call.                  *)

Callers == 1..NumCallers

\* the records the concurrent callers commit
CommitRecords == {ContractRecord(es) : es \in SeqsUpTo(ContractEntities, 1)}

CallerAt(data) ==
    [pc |-> "line77", data |-> data, stored_hash |-> "", timestamp |-> 0,
     raised |-> ""]

InitConcurrent ==
    /\ callers \in [Callers -> {CallerAt(d) : d \in CommitRecords}]
    /\ on_chain_data = EmptyDict
    /\ off_chain_data = None
    /\ stored_hash = ""
    /\ call = None
    /\ doc = <<>>
    /\ clock = 0
    /\ pc = "threads"
    /\ IdleNetwork
    /\ IdleValidator

concurrentFrame == <<doc, pc, off_chain_data, stored_hash, call, networkVars,
                     validatorVars>>

\* lines 77-78: stored_hash = sha256(json.dumps(data_off_chain, sort_keys=True))
ComputeHash(c) ==
    /\ callers[c].pc = "line77"
    /\ callers' = [callers EXCEPT ![c].stored_hash = store_digest(callers[c].data),
                                  ![c].pc = "line80"]
    /\ UNCHANGED <<on_chain_data, clock, concurrentFrame>>

\* line 80: on_chain_data["hash"] = stored_hash
WriteHash(c) ==
    /\ callers[c].pc = "line80"
    /\ on_chain_data' = DictSet(on_chain_data, "hash", callers[c].stored_hash)
    /\ callers' = [callers EXCEPT ![c].pc = "line81"]
    /\ UNCHANGED <<clock, concurrentFrame>>

\* line 81, right-hand side: str(datetime.now()) is evaluated first; the
\* reading is on the thread's stack until the item is stored
ReadClock(c) ==
    /\ callers[c].pc = "line81"
    /\ callers' = [callers EXCEPT ![c].timestamp = clock,
                                  ![c].pc = "line81_store"]
    /\ clock' = clock + 1
    /\ UNCHANGED <<on_chain_data, concurrentFrame>>

\* line 81, the store: on_chain_data["timestamp"] = <the reading>
WriteTimestamp(c) ==
    /\ callers[c].pc = "line81_store"
    /\ on_chain_data' = DictSet(on_chain_data, "timestamp",
                                TimeStr(callers[c].timestamp))
    /\ callers' = [callers EXCEPT ![c].pc = "line82"]
    /\ UNCHANGED <<clock, concurrentFrame>>

\* line 82: on_chain_data["status"] = "Data hash stored on-chain"
WriteStatus(c) ==
    /\ callers[c].pc = "line82"
    /\ on_chain_data' = DictSet(on_chain_data, "status", "Data hash stored on-chain")
    /\ callers' = [callers EXCEPT ![c].pc = "line83"]
    /\ UNCHANGED <<clock, concurrentFrame>>

\* line 83: on_chain_data["contract_address"] = CONTRACT_ADDRESS
WriteAddress(c) ==
    /\ callers[c].pc = "line83"
    /\ on_chain_data' = DictSet(on_chain_data, "contract_address", CONTRACT_ADDRESS)
    /\ callers' = [callers EXCEPT ![c].pc = "line89"]
    /\ UNCHANGED <<clock, concurrentFrame>>

\* line 89: return stored_hash
StoreReturn(c) ==
    /\ callers[c].pc = "line89"
    /\ callers' = [callers EXCEPT ![c].pc = "done"]
    /\ UNCHANGED <<on_chain_data, clock, concurrentFrame>>

NextConcurrent ==
    \E c \in Callers :
        \/ ComputeHash(c)
        \/ WriteHash(c)
        \/ ReadClock(c)
        \/ WriteTimestamp(c)
        \/ WriteStatus(c)
        \/ WriteAddress(c)
        \/ StoreReturn(c)

SpecConcurrent == InitConcurrent /\ [][NextConcurrent]_vars

-----------------------------------------------------------------------------
(* Properties *)

\* "valid" as the design states it: not None, and a non-empty entity list
SpecValid(o) == o # None /\ o.data.entities # <<>>

ValidAttestations == Filter(oracle_results, SpecValid)

IsApproved(r) == HasKey(r, "consensus") /\ r.consensus = "success"

CallIs(op) == HasKey(call, "op") /\ call.op = op

HasEntity(entities, e) == \E i \in DOMAIN entities : entities[i] = e

\* C1: whenever at least `threshold` attestations are valid, consensus_mechanism
\* returns an approved outcome whose final_package is the package of the first
\* valid attestation in submission order.
C1_ApprovedIsFirstValid ==
    (pc = "reconciled" /\ Len(ValidAttestations) >= threshold)
        => /\ IsApproved(consensus_result)
           /\ ValidAttestations # <<>>
           /\ consensus_result.final_package = ValidAttestations[1].data

\* C2: whenever fewer than `threshold` attestations are valid (not None and with
\* a non-empty entity list), consensus_mechanism returns None.
C2_TooFewValidFails ==
    (pc = "reconciled" /\ Len(ValidAttestations) < threshold)
        => consensus_result = None

\* C3: in a run of main, consensus runs exactly once, arbitration runs iff that
\* round returned None, and final_data is the approved package when consensus
\* succeeded and the corrected record otherwise, never both and never neither.
C3_ConsensusXorArbitration ==
    /\ consensus_calls <= 1
    /\ hitl_calls <= 1
    /\ pc \in {"process", "consensus"} =>
          consensus_calls = 0 /\ hitl_calls = 0 /\ final_data = None
    /\ pc = "decide" =>
          /\ consensus_calls = 1 /\ hitl_calls = 0 /\ final_data = None
          /\ consensus_result = consensus_mechanism(oracle_results, MainThreshold)
    /\ pc \in {"final_hash", "save", "done"} =>
          /\ consensus_calls = 1
          /\ hitl_calls = 1 <=> consensus_result = None
          /\ consensus_result # None =>
                /\ IsApproved(consensus_result)
                /\ final_data = consensus_result.final_package
                /\ corrected_data = None
          /\ consensus_result = None =>
                /\ corrected_data # None
                /\ final_data = corrected_data

\* a finished run in which one node answered, consensus failed and arbitration ran
C3_Witness ==
    /\ pc = "done"
    /\ hitl_calls = 1
    /\ \E i \in DOMAIN oracle_results : oracle_results[i] # None
    /\ saved_file = corrected_data

\* C4: a second store_on_chain whose digest differs from the stored one ends in
\* a Store Corruption error and leaves the stored commitment as it was.
C4_NoOverwrite ==
    (CallIs("store") /\ HasKey(call.before, "hash")
                     /\ call.before["hash"] # call.ret)
        => /\ call.raised = "StoreCorruption"
           /\ on_chain_data = call.before

\* a record like r but for one field of one entity
OneFieldMutation(r, m) ==
    /\ DOMAIN m = DOMAIN r
    /\ \A k \in (DOMAIN r) \ {"valid_entities"} : m[k] = r[k]
    /\ Len(m.valid_entities) = Len(r.valid_entities)
    /\ \E i \in DOMAIN r.valid_entities :
         LET a == r.valid_entities[i]
             b == m.valid_entities[i]
         IN /\ Cardinality({f \in {"text", "label", "confidence"} : a[f] # b[f]}) = 1
            /\ \A j \in (DOMAIN r.valid_entities) \ {i} :
                  m.valid_entities[j] = r.valid_entities[j]

\* C5: verify_hash of the committed record against the digest store_on_chain
\* returned is true, and verify_hash of a record that differs from it in one
\* field of one entity against that digest is false.
C5_CommitThenVerify ==
    (CallIs("verify") /\ off_chain_data # None /\ call.stored_hash = stored_hash)
        => /\ call.data = off_chain_data => call.ret
           /\ OneFieldMutation(off_chain_data, call.data) => ~call.ret

\* a one-field mutation of the committed record was verified against its digest
C5_Witness ==
    /\ CallIs("verify")
    /\ off_chain_data # None
    /\ call.stored_hash = stored_hash
    /\ OneFieldMutation(off_chain_data, call.data)
    /\ ~call.ret

\* the rule, stated over the record: a SYMPTOM entity whose lower-cased text is
\* a headache synonym and a DRUG entity whose lower-cased text is an approved drug
RuleHolds(data) ==
    LET es == data.valid_entities IN
    /\ \E i \in DOMAIN es :
          /\ es[i].label = "SYMPTOM"
          /\ Lower(es[i].text) \in {headache, headaches, pain, migraine}
    /\ \E i \in DOMAIN es :
          /\ es[i].label = "DRUG"
          /\ Lower(es[i].text) \in {ibuprofen, paracetamol, aspirin}

\* C6: when the recomputed digest differs from the supplied one, execution ends
\* at the integrity gate with no action and the rule is not evaluated.
C6_GateBeforeRule ==
    (CallIs("execute") /\ generate_hash(call.data) # call.stored_hash)
        => /\ call.step = "integrity_gate"
           /\ ~call.verified
           /\ ~call.ret
           /\ call.raised = ""
           /\ call.matched_headache = <<>>
           /\ call.matched_drug = <<>>

\* a record that satisfies the rule was stopped at the gate
C6_Witness ==
    /\ CallIs("execute")
    /\ generate_hash(call.data) # call.stored_hash
    /\ RuleHolds(call.data)
    /\ call.step = "integrity_gate"

\* C7: the action is triggered only for a record whose recomputed digest equals
\* the digest held in on_chain_data at that moment.
C7_OnlyCommittedTriggers ==
    (CallIs("execute") /\ call.ret)
        => /\ HasKey(on_chain_data, "hash")
           /\ generate_hash(call.data) = on_chain_data["hash"]

\* C8: for a record that passes the integrity gate, the action is triggered iff
\* the record has a SYMPTOM entity whose text is, case-insensitively and as a
\* whole token, a headache synonym and a DRUG entity whose text is likewise an
\* approved drug.
C8_RuleIsExactTokenMatch ==
    (CallIs("execute") /\ call.verified)
        => /\ call.raised = ""
           /\ call.step = "business_logic"
           /\ call.ret <=> RuleHolds(call.data)

\* a verified record with "painful" (contains "pain") and an approved drug: no action
C8_Witness ==
    /\ CallIs("execute")
    /\ call.verified
    /\ HasEntity(call.data.valid_entities,
                 Entity(<<"p","a","i","n","f","u","l">>, "SYMPTOM", 90))
    /\ HasEntity(call.data.valid_entities, Entity(ibuprofen, "DRUG", 95))
    /\ ~call.ret

\* C9: when all three nodes report (ibuprofen, DRUG, 0.95) and (headache,
\* SYMPTOM, 0.90), consensus approves, and the approved package committed and
\* handed with its commitment to execute_smart_contract triggers the action
\* with the matched pair (headache, ibuprofen).
C9_EndToEndTriggers ==
    (/\ pc = "package_evaluated"
     /\ \A i \in DOMAIN oracle_results :
           /\ oracle_results[i] # None
           /\ HasEntity(oracle_results[i].data.entities,
                        Entity(ibuprofen, "DRUG", 95))
           /\ HasEntity(oracle_results[i].data.entities,
                        Entity(headache, "SYMPTOM", 90)))
        => /\ IsApproved(consensus_result)
           /\ call.raised = ""
           /\ call.ret
           /\ call.matched_headache = headache
           /\ call.matched_drug = ibuprofen

\* C10: every entity a validator returns has a confidence at or above the
\* configured threshold.
C10_AllAtOrAboveThreshold ==
    pc \in {"validated_nlp", "validated_node"}
        => \A i \in DOMAIN validated_entities :
              validated_entities[i].confidence >= confidence_threshold

AllCallersDone == \A c \in Callers : callers[c].pc = "done"

SameDigests ==
    \A c, d \in Callers :
        store_digest(callers[c].data) = store_digest(callers[d].data)

\* the commitment caller c's call writes when it runs alone
CommitmentOf(c) ==
    store_on_chain(EmptyDict, callers[c].data, callers[c].timestamp)

\* C11: concurrent store_on_chain calls with the same digest all succeed and
\* leave the commitment of a single call; with differing digests Store
\* Corruption is raised exactly once and the stored commitment is the whole
\* commitment of a caller that did not raise, not a mix of two calls' fields.
C11_ConcurrentCommitAtomic ==
    (pc = "threads" /\ AllCallersDone)
        => IF SameDigests
           THEN /\ \A c \in Callers : callers[c].raised = ""
                /\ \E c \in Callers : on_chain_data = CommitmentOf(c)
           ELSE /\ Cardinality({c \in Callers :
                                   callers[c].raised = "StoreCorruption"}) = 1
                /\ \E c \in Callers : /\ callers[c].raised = ""
                                      /\ on_chain_data = CommitmentOf(c)

\* C12: a node that never returns does not block the round: the coordinator
\* eventually reconciles the attestations, so every round eventually reaches
\* Approved or Failed (consensus_mechanism has been called and has returned).
C12_RoundEventuallyReconciled ==
    <>(consensus_calls = 1 /\ pc \in {"decide", "final_hash", "save", "done"})

\* C13: the value execute_smart_contract returns when the integrity gate
\* fails differs from the value it returns for every record that is verified
\* but does not match the rule, so a caller can tell the outcomes apart.
C13_IntegrityFailureDistinct ==
    (CallIs("execute") /\ call.raised = "" /\ ~call.verified)
        => \A d \in Records :
               LET o == execute_smart_contract(d, generate_hash(d))
               IN (o.verified /\ o.raised = "" /\ ~RuleHolds(d))
                      => ReturnedValue(o) # ReturnedValue(call)

HasTerm(terms, token) ==
    \E i \in DOMAIN terms : Contains(terms[i], Lower(token.text))

\* the entities the priority rule gives a token; labelled(token) says whether
\* a token that only has an extractor label yields an entity
PriorityEntities(token, labelled) ==
    IF HasTerm(CUSTOM_DRUGS, token) THEN <<Entity(token.text, "DRUG", 95)>>
    ELSE IF HasTerm(CUSTOM_SYMPTOMS, token)
    THEN <<Entity(token.text, "SYMPTOM", 90)>>
    ELSE IF token.ent_type_ # "" /\ labelled
    THEN <<Entity(token.text, token.ent_type_, 85)>>
    ELSE <<>>

RECURSIVE PriorityList(_, _)
PriorityList(tokens, labelled) ==
    IF tokens = <<>> THEN <<>>
    ELSE PriorityEntities(Head(tokens), labelled)
         \o PriorityList(Tail(tokens), labelled)

Validated == pc \in {"validated_nlp", "validated_node"}

\* C14 as stated: every token yields, in token order, DRUG 0.95 if it contains
\* a drug term, else SYMPTOM 0.90 if it contains a symptom term, else its
\* extractor label with 0.85 whenever it has one, else nothing.
C14_LabelAlwaysRetained ==
    Validated => validated_entities = PriorityList(doc, TRUE)

\* C14: the validators classify each token in strict priority order, at most
\* one entity per token, in token order: DRUG 0.95 for a drug term, else
\* SYMPTOM 0.90 for a symptom term, else the extractor label with 0.85
\* provided 0.85 is at least the configured threshold, else no entity.
C14_PriorityClassification ==
    Validated
        => validated_entities = PriorityList(doc, 85 >= confidence_threshold)

C14_Witness ==
    /\ pc = "validated_nlp"
    /\ confidence_threshold = 86
    /\ doc = <<Token(<<"F","e","v","e","r","-","A","s","p","i","r","i","n">>,
                     "PRODUCT"),
               Token(MRI, "ORG")>>
    /\ validated_entities =
           <<Entity(<<"F","e","v","e","r","-","A","s","p","i","r","i","n">>,
                    "DRUG", 95)>>

\* C15: from its production by process until the end of the run an attestation
\* is not mutated: its hash is the canonical hash of its data package and its
\* signature is sign_hash of that hash under the node's key.
C15_AttestationImmutable ==
    \A i \in DOMAIN oracle_results :
        oracle_results[i] # None
            => /\ oracle_results[i].hash = generate_hash(oracle_results[i].data)
               /\ oracle_results[i].signature =
                      sign_hash(Oracles[i], oracle_results[i].hash)

NodeEntities == validate_entities(doc, CUSTOM_DRUGS, CUSTOM_SYMPTOMS)

\* the attestation of node i is the one the node produces for the document
ProducedBy(i, o) ==
    /\ o.node_id = Oracles[i].node_id
    /\ o.data.node_id = Oracles[i].node_id
    /\ o.data.entities = NodeEntities
    /\ o.hash = generate_hash(o.data)
    /\ o.signature = sign_hash(Oracles[i], o.hash)

\* C16: when a node raises while processing, the round goes on: that node's
\* result is None, every other node is processed and its attestation is the
\* one it produces for the document, and consensus runs over all n results.
C16_NodeFailureIsAbstain ==
    /\ Len(node_raised) = Len(oracle_results)
    /\ \A i \in DOMAIN oracle_results :
           node_raised[i] => oracle_results[i] = None
    /\ pc \in {"process", "consensus", "decide"}
           => \A i \in DOMAIN oracle_results :
                  ~node_raised[i]
                      => IF NodeEntities = <<>>
                         THEN oracle_results[i] = None
                         ELSE /\ oracle_results[i] # None
                              /\ ProducedBy(i, oracle_results[i])
    /\ pc = "decide"
           => /\ Len(oracle_results) = Len(Oracles)
              /\ consensus_calls = 1
              /\ consensus_result = consensus_mechanism(oracle_results, threshold)

C16_Witness ==
    /\ pc = "decide"
    /\ node_raised = <<FALSE, TRUE, FALSE>>
    /\ oracle_results[2] = None
    /\ oracle_results[1] # None
    /\ oracle_results[3] # None
    /\ IsApproved(consensus_result)

\* the nodes whose result is an attestation
Present == {i \in DOMAIN oracle_results : oracle_results[i] # None}

\* C17: a node whose document yields no retained entity returns None without
\* raising, and a None result does not contribute: the outcome is approved
\* exactly when the results that are not None reach the threshold, the
\* approved package is the data of the first result that is not None, and the
\* hashes and signatures are those of the results that are not None.
C17_AbstainIsNullAndIgnored ==
    /\ \A i \in DOMAIN oracle_results :
           (~node_raised[i] /\ NodeEntities = <<>>) => oracle_results[i] = None
    /\ pc = "decide"
           => /\ IsApproved(consensus_result) <=> Cardinality(Present) >= threshold
              /\ ~IsApproved(consensus_result) => consensus_result = None
              /\ IsApproved(consensus_result)
                     => LET first == CHOOSE i \in Present :
                                         \A j \in Present : i <= j
                        IN /\ consensus_result.final_package
                                  = oracle_results[first].data
                           /\ consensus_result.final_package.entities # <<>>
                           /\ Len(consensus_result.aggregated_hashes)
                                  = Cardinality(Present)
                           /\ Len(consensus_result.signatures)
                                  = Cardinality(Present)
                           /\ \A k \in DOMAIN consensus_result.aggregated_hashes :
                                  \E i \in Present :
                                      /\ consensus_result.aggregated_hashes[k]
                                             = oracle_results[i].hash
                                      /\ consensus_result.signatures[k]
                                             = oracle_results[i].signature

C17_Witness ==
    /\ pc = "decide"
    /\ doc # <<>>
    /\ NodeEntities = <<>>
    /\ node_raised = <<FALSE, FALSE, FALSE>>
    /\ oracle_results = <<None, None, None>>
    /\ consensus_result = None

\* C18: in an approved outcome aggregated_hashes and signatures hold exactly
\* one entry per valid attestation, in submission order, and the i-th hash
\* and the i-th signature come from the same (the i-th valid) attestation.
C18_OneDigestPerValid ==
    (pc = "reconciled" /\ IsApproved(consensus_result))
        => /\ Len(consensus_result.aggregated_hashes) = Len(ValidAttestations)
           /\ Len(consensus_result.signatures) = Len(ValidAttestations)
           /\ \A k \in DOMAIN ValidAttestations :
                  /\ consensus_result.aggregated_hashes[k]
                         = ValidAttestations[k].hash
                  /\ consensus_result.signatures[k]
                         = ValidAttestations[k].signature

HitlPrefix == "HITL_"

\* C19: the record trigger_human_in_the_loop returns is not a merge: its
\* entities are the same whatever the attestations handed in (None included),
\* the attestations stay as the nodes produced them, and its validator_id
\* starts with HITL_ and is the node_id of no attestation of the round.
C19_CorrectedRecordNotMerged ==
    hitl_calls = 1
        => /\ corrected_data.entities
                  = << Entity(MRI, "PROCEDURE", 98), Entity(headache, "SYMPTOM", 95),
                       Entity(fatigue, "SYMPTOM", 93), Entity(ibuprofen, "DRUG", 97) >>
           /\ \A i \in DOMAIN oracle_results :
                  /\ node_raised[i] => oracle_results[i] = None
                  /\ oracle_results[i] # None => ProducedBy(i, oracle_results[i])
           /\ \E a, b, c \in DOMAIN Digits :
                  corrected_data.validator_id
                      = HitlPrefix \o Digits[a] \o Digits[b] \o Digits[c]
           /\ \A i \in DOMAIN Oracles :
                  corrected_data.validator_id # Oracles[i].node_id
           /\ final_data.entities = corrected_data.entities

C19_Witness ==
    /\ hitl_calls = 1
    /\ pc = "final_hash"
    /\ Cardinality(Present) = 1
    /\ \E i \in Present :
           oracle_results[i].data.entities # corrected_data.entities

\* C20: execute_smart_contract and verify_hash are read-only: whatever the
\* record, the digest and the outcome (integrity failure, no match, match),
\* on_chain_data and the record passed in are after the call what they were
\* when it was entered.
C20_EvaluateReadOnly ==
    (CallIs("execute") \/ CallIs("verify"))
        => /\ on_chain_data = call.before
           /\ call.data = call.arg

C20_Witness ==
    /\ CallIs("execute")
    /\ call.step = "business_logic"
    /\ call.ret = TRUE
    /\ on_chain_data # EmptyDict
    /\ on_chain_data = call.before

\* C21: the record a script persists for the smart contract is consistent
\* with the digest it carries: the hash verify_hash recomputes over the whole
\* persisted record is the digest embedded in it (final_hash in the network
\* run, hash in the single-oracle run).
C21_PersistedRecordVerifies ==
    /\ pc = "done" => verify_hash(saved_file, saved_file.final_hash)
    /\ pc = "oracle_saved"
           => verify_hash(data_for_blockchain, data_for_blockchain.hash)

====
